---- MODULE Spec2Model ----
(***************************************************************************)
(* A model of grammar_commons/grammar_utils.py: the bracket validator      *)
(* (validate_bnf_groups), the alternative splitter (split_options), the    *)
(* substitution engine (get_potential_options), the word-only check        *)
(* (is_words_only, are_all_words_only) and the round-based expansion       *)
(* engine (expand_bnf_recursive).                                          *)
(*                                                                         *)
(* A Python str is modelled as a sequence of one-character strings, a      *)
(* Python set as a set, a Python list as a sequence.                       *)
(***************************************************************************)
EXTENDS Integers, Sequences, FiniteSets

\* ------------------------------------------------------------------ bounds

\* Longest notation string the exhaustive part of Init enumerates.
MaxLen == 4

\* Longest enumerated string that is also put in a two-string input set.
MaxPairLen == 3

\* Longest enumerated string of the calls checked for termination.
MaxLiveLen == 3

\* The recursion depth (round number) is counted up to this value and then
\* saturates; the source sets no limit on the recursion.
MaxRound == 3

\* ------------------------------------------------------------- characters

Letters == {"a", "b", "c", "d", "e", "f", "h", "i", "l", "o", "r", "t", "z"}

Punctuation == {"(", ")", "[", "]", "|"}

\* A character that is neither grammar punctuation nor in any alphabet class.
Foreign == {"!"}

Char == Letters \cup Punctuation \cup {" "} \cup Foreign

\* The characters the exhaustive part of Init draws strings from.
EnumChar == {"a", "b", " ", "(", ")", "[", "]", "|", "!"}

\* Code point of a character: Python compares str values by code point.
Ord(c) ==
    CASE c = " " -> 32 [] c = "!" -> 33 [] c = "(" -> 40 [] c = ")" -> 41
      [] c = "[" -> 91 [] c = "]" -> 93
      [] c = "a" -> 97 [] c = "b" -> 98 [] c = "c" -> 99 [] c = "d" -> 100
      [] c = "e" -> 101 [] c = "f" -> 102 [] c = "h" -> 104 [] c = "i" -> 105
      [] c = "l" -> 108 [] c = "o" -> 111 [] c = "r" -> 114 [] c = "t" -> 116
      [] c = "z" -> 122 [] c = "|" -> 124

Range(f) == {f[i] : i \in DOMAIN f}

Min(S) == CHOOSE x \in S : \A y \in S : x <= y

\* --------------------------------------------------------- str operations

\* s < t for Python str: lexicographic by code point, a proper prefix first.
StrLess(s, t) ==
    \E i \in 1..(Len(t)) :
        /\ \A k \in 1..(i - 1) : k <= Len(s) /\ s[k] = t[k]
        /\ i - 1 <= Len(s)
        /\ \/ i = Len(s) + 1
           \/ i <= Len(s) /\ Ord(s[i]) < Ord(t[i])

\* Mutant of sorted: list(S) in place of sorted(S); the order of a set is
\* not the ascending one (here: descending).
RECURSIVE sorted_as_list(_)
sorted_as_list(S) ==
    IF S = {} THEN <<>>
    ELSE LET m == CHOOSE x \in S : \A y \in S \ {x} : StrLess(y, x)
         IN  <<m>> \o sorted_as_list(S \ {m})

\* sorted(S) of a set of str.
RECURSIVE sorted(_)
sorted(S) ==
    IF S = {} THEN <<>>
    ELSE LET m == CHOOSE x \in S : \A y \in S \ {x} : StrLess(x, y)
         IN  <<m>> \o sorted(S \ {m})

\* s.strip(): the only whitespace character of Char is the space.
RECURSIVE lstrip(_)
lstrip(s) == IF s # <<>> /\ Head(s) = " " THEN lstrip(Tail(s)) ELSE s

RECURSIVE rstrip(_)
rstrip(s) ==
    IF s # <<>> /\ s[Len(s)] = " " THEN rstrip(SubSeq(s, 1, Len(s) - 1)) ELSE s

strip(s) == rstrip(lstrip(s))

\* s.split(sep) for a one-character sep: the list of the pieces between the
\* occurrences of sep (one piece more than there are occurrences).
RECURSIVE split(_, _)
split(s, sep) ==
    IF \A i \in 1..Len(s) : s[i] # sep THEN <<s>>
    ELSE LET i == Min({k \in 1..Len(s) : s[k] = sep})
         IN  <<SubSeq(s, 1, i - 1)>> \o split(SubSeq(s, i + 1, Len(s)), sep)

\* Index of the first occurrence of old in s, 0 when there is none.
find(s, old) ==
    LET hits == {i \in 1..(Len(s) - Len(old) + 1) :
                    SubSeq(s, i, i + Len(old) - 1) = old}
    IN  IF hits = {} THEN 0 ELSE Min(hits)

\* s.replace(old, new, 1): the first occurrence of old replaced.
replace_first(s, old, new) ==
    LET i == find(s, old)
    IN  IF i = 0 THEN s
        ELSE SubSeq(s, 1, i - 1) \o new \o SubSeq(s, i + Len(old), Len(s))

\* s.replace('  ', ' '): every non-overlapping occurrence, scanned left to
\* right, of two spaces replaced by one.
RECURSIVE replace_double_space(_)
replace_double_space(s) ==
    IF Len(s) < 2 THEN s
    ELSE IF s[1] = " " /\ s[2] = " "
         THEN <<" ">> \o replace_double_space(SubSeq(s, 3, Len(s)))
         ELSE <<s[1]>> \o replace_double_space(Tail(s))

\* -------------------------------------------------------------- validator

\* The locals of validate_bnf_groups before the scan; ret is "none" while
\* the function has not returned.
ValidateStart == [group_stack |-> <<>>, character_index |-> 0, ret |-> "none"]

\* Mutant of ValidateChar: a closer pops whatever opener is on top, the
\* kind of the opener is not compared.
ValidateChar_any_kind(st, char) ==
    LET stack == st.group_stack
        pop == SubSeq(stack, 1, Len(stack) - 1)
        next == st.character_index + 1
    IN  IF char = "(" \/ char = "["
        THEN [st EXCEPT !.group_stack = Append(stack, <<char, st.character_index>>),
                        !.character_index = next]
        ELSE IF char = ")" \/ char = "]"
        THEN IF stack = <<>> THEN [st EXCEPT !.ret = "False"]
             ELSE [st EXCEPT !.group_stack = pop, !.character_index = next]
        ELSE [st EXCEPT !.character_index = next]

\* Mutant of ValidateChar: the counter is not advanced past an opener
\* (line 192 left out).
ValidateChar_opener_not_counted(st, char) ==
    LET stack == st.group_stack
        top == stack[Len(stack)][1]
        pop == SubSeq(stack, 1, Len(stack) - 1)
        next == st.character_index + 1
    IN  IF char = "(" \/ char = "["
        THEN [st EXCEPT !.group_stack = Append(stack, <<char, st.character_index>>)]
        ELSE IF char = ")"
        THEN IF stack = <<>> THEN [st EXCEPT !.ret = "False"]
             ELSE IF top = "("
                  THEN [st EXCEPT !.group_stack = pop, !.character_index = next]
                  ELSE [st EXCEPT !.ret = "False"]
        ELSE IF char = "]"
        THEN IF stack = <<>> THEN [st EXCEPT !.ret = "False"]
             ELSE IF top = "["
                  THEN [st EXCEPT !.group_stack = pop, !.character_index = next]
                  ELSE [st EXCEPT !.ret = "False"]
        ELSE [st EXCEPT !.character_index = next]

\* One iteration of the for loop of validate_bnf_groups on character char.
\* The source compares char with the delimiters by "is"; CPython keeps one
\* object per one-character Latin-1 string, so the comparison is equality.
ValidateChar(st, char) ==
    LET stack == st.group_stack
        top == stack[Len(stack)][1]
        pop == SubSeq(stack, 1, Len(stack) - 1)
        next == st.character_index + 1
    IN  IF char = "(" \/ char = "["
        THEN [st EXCEPT !.group_stack = Append(stack, <<char, st.character_index>>),
                        !.character_index = next]
        ELSE IF char = ")"
        THEN IF stack = <<>> THEN [st EXCEPT !.ret = "False"]
             ELSE IF top = "("
                  THEN [st EXCEPT !.group_stack = pop, !.character_index = next]
                  ELSE [st EXCEPT !.ret = "False"]
        ELSE IF char = "]"
        THEN IF stack = <<>> THEN [st EXCEPT !.ret = "False"]
             ELSE IF top = "["
                  THEN [st EXCEPT !.group_stack = pop, !.character_index = next]
                  ELSE [st EXCEPT !.ret = "False"]
        ELSE [st EXCEPT !.character_index = next]

\* The code after the loop: True on an empty stack, False otherwise.
ValidateEnd(st) ==
    IF st.group_stack = <<>> THEN [st EXCEPT !.ret = "True"]
    ELSE [st EXCEPT !.ret = "False"]

\* The scan from position pos (1-based) on; a return inside the loop ends it.
RECURSIVE ValidateFrom(_, _, _)
ValidateFrom(bnf, pos, st) ==
    IF st.ret # "none" THEN st
    ELSE IF pos > Len(bnf) THEN ValidateEnd(st)
    ELSE ValidateFrom(bnf, pos + 1, ValidateChar(st, bnf[pos]))

validate_bnf_groups(bnf) == ValidateFrom(bnf, 1, ValidateStart).ret = "True"

\* ------------------------------------------------------ alphabet provider

\* The language identifiers the model passes to the engine.
LanguageCode == {"en", "EN", "xx"}

\* str.lower() on the identifiers of LanguageCode.
lower(code) == IF code = "EN" THEN "en" ELSE code

\* lang_utils.LANGUAGE_UNICODE_ALPHABET: language identifier -> the class of
\* word characters, which holds the separator (space).
LANGUAGE_UNICODE_ALPHABET == [code \in {"en"} |-> Letters \cup {" "}]

\* string_utils.remove_from_string: the string without the given symbols.
remove_from_string(string, symbols_to_remove) ==
    SelectSeq(string, LAMBDA c : c \notin symbols_to_remove)

\* ---------------------------------------------------------------- patterns

Pipes(s) == Cardinality({i \in 1..Len(s) : s[i] = "|"})

\* The three alternatives of the body shared by GROUPS_REGEX, OPTIONALS_REGEX
\* and OPTIONS_REGEX, each as the set of strings it matches in full, for the
\* character class L:  L* ,  (L*\|L*)* ,  (L*\|L*\|L*)* .
BodyWords(s, L) == \A i \in 1..Len(s) : s[i] \in L

BodyOnePipe(s, L) ==
    /\ \A i \in 1..Len(s) : s[i] \in L \cup {"|"}
    /\ s = <<>> \/ Pipes(s) >= 1

BodyTwoPipes(s, L) ==
    /\ \A i \in 1..Len(s) : s[i] \in L \cup {"|"}
    /\ Pipes(s) % 2 = 0
    /\ s = <<>> \/ Pipes(s) >= 2

AtomicBody(s, L) == BodyWords(s, L) \/ BodyOnePipe(s, L) \/ BodyTwoPipes(s, L)

\* OPTIONS_PATTERN.fullmatch(s): whether the whole of s matches; the group
\* atomic_options is then s itself.
options_fullmatch(s, L) == AtomicBody(s, L)

\* PATTERN.search(s) for GROUPS_REGEX (open "(", close ")") and
\* OPTIONALS_REGEX (open "[", close "]"): the text of the match that starts
\* leftmost, <<>> when nothing matches (a match is never empty: it holds
\* its two delimiters).
atomic_search(s, open, close, L) ==
    LET spans == {p \in (1..Len(s)) \X (1..Len(s)) :
                     /\ p[1] < p[2]
                     /\ s[p[1]] = open
                     /\ s[p[2]] = close
                     /\ AtomicBody(SubSeq(s, p[1] + 1, p[2] - 1), L)}
    IN  IF spans = {} THEN <<>>
        ELSE LET i == Min({p[1] : p \in spans})
                 j == Min({p[2] : p \in {q \in spans : q[1] = i}})
             IN  SubSeq(s, i, j)

groups_search(s, L) == atomic_search(s, "(", ")", L)

optionals_search(s, L) == atomic_search(s, "[", "]", L)

\* regex.search(WORDS_PATTERN, string): the leftmost, longest run of
\* characters of L, <<>> when string holds none (the pattern is L+).
words_search(string, L) ==
    LET starts == {i \in 1..Len(string) : string[i] \in L}
    IN  IF starts = {} THEN <<>>
        ELSE LET i == Min(starts)
                 ends == {j \in i..Len(string) :
                             /\ \A k \in i..j : string[k] \in L
                             /\ j = Len(string) \/ string[j + 1] \notin L}
             IN  SubSeq(string, i, Min(ends))

\* ------------------------------------------------- splitter, substitution

\* Mutant of split_options: split on the space in place of the pipe.
split_options_on_space(string) ==
    LET cleaned_string == remove_from_string(string, {"(", ")", "[", "]"})
        pieces == split(cleaned_string, " ")
    IN  [i \in 1..Len(pieces) |-> strip(pieces[i])]

\* Mutant of split_options: only the opening brackets are removed.
split_options_keep_closers(string) ==
    LET cleaned_string == remove_from_string(string, {"(", "["})
        pieces == split(cleaned_string, "|")
    IN  [i \in 1..Len(pieces) |-> strip(pieces[i])]

\* split_options: the brackets removed, split on "|", each piece stripped.
split_options(string) ==
    LET cleaned_string == remove_from_string(string, {"(", ")", "[", "]"})
        pieces == split(cleaned_string, "|")
    IN  [i \in 1..Len(pieces) |-> strip(pieces[i])]

\* s.replace(old, new) without a count, for a non-empty old: every
\* occurrence replaced.
RECURSIVE replace_every(_, _, _)
replace_every(s, old, new) ==
    LET i == find(s, old)
    IN  IF i = 0 THEN s
        ELSE SubSeq(s, 1, i - 1) \o new
                 \o replace_every(SubSeq(s, i + Len(old), Len(s)), old, new)

\* Mutant of get_potential_options: replace is called without the count of
\* 1, every occurrence of matched_value is replaced.
get_potential_options_every(bnf, matched_value) ==
    {replace_every(bnf, matched_value, option) :
        option \in Range(split_options(matched_value))}

\* get_potential_options: the first occurrence of matched_value in bnf
\* replaced by each of its options.
get_potential_options(bnf, matched_value) ==
    {replace_first(bnf, matched_value, option) :
        option \in Range(split_options(matched_value))}

\* ---------------------------------------------------------- word-only check

\* Mutant of is_words_only: True as soon as the string holds a word run,
\* the run is not compared with the whole string.
is_words_only_any_run(string, language_code) ==
    IF lower(language_code) \notin DOMAIN LANGUAGE_UNICODE_ALPHABET
    THEN [raised |-> FALSE, value |-> FALSE]
    ELSE LET words_match ==
                 words_search(string, LANGUAGE_UNICODE_ALPHABET[lower(language_code)])
         IN  IF words_match = <<>>
             THEN [raised |-> TRUE, value |-> FALSE]
             ELSE [raised |-> FALSE, value |-> TRUE]

\* is_words_only: raised is TRUE when the call ends in AttributeError
\* (words_match is None: the string holds no character of the class), and
\* value is the boolean returned otherwise.
is_words_only(string, language_code) ==
    IF lower(language_code) \notin DOMAIN LANGUAGE_UNICODE_ALPHABET
    THEN [raised |-> FALSE, value |-> FALSE]
    ELSE LET words_match ==
                 words_search(string, LANGUAGE_UNICODE_ALPHABET[lower(language_code)])
         IN  IF words_match = <<>>
             THEN [raised |-> TRUE, value |-> FALSE]
             ELSE [raised |-> FALSE, value |-> words_match = string]

\* ------------------------------------------------------------------ inputs

\* Every string of at most n characters of EnumChar.
Strs(n) == UNION {[1..k -> EnumChar] : k \in 0..n}

\* "(a|b|c)"
ExGroup ==
    <<"(", "a", "|", "b", "|", "c", ")">>

\* "(a|b) [c|d]"
ExGroupOptional ==
    <<"(", "a", "|", "b", ")", " ", "[", "c", "|", "d", "]">>

\* "(hi|hello) [there]"
ExHi ==
    <<"(", "h", "i", "|", "h", "e", "l", "l", "o", ")", " ", "[", "t", "h", "e", "r", "e", "]">>

\* "(a|b]"
ExMalformed ==
    <<"(", "a", "|", "b", "]">>

\* "a|b"
ExPipe ==
    <<"a", "|", "b">>

\* "foo [bar] baz"
ExFoo ==
    <<"f", "o", "o", " ", "[", "b", "a", "r", "]", " ", "b", "a", "z">>

\* "(a (b|c)|d) [e]"
ExNested ==
    <<"(", "a", " ", "(", "b", "|", "c", ")", "|", "d", ")", " ", "[", "e", "]">>

\* "((b))"
ExDeep ==
    <<"(", "(", "b", ")", ")">>

\* "(c) [d] [e]"
ExTwoOptionals ==
    <<"(", "c", ")", " ", "[", "d", "]", " ", "[", "e", "]">>

\* "(a) [b]"
ExOneOne ==
    <<"(", "a", ")", " ", "[", "b", "]">>

\* "foo [bar|] baz"
ExEmptyAlternative ==
    <<"f", "o", "o", " ", "[", "b", "a", "r", "|", "]", " ", "b", "a", "z">>

Examples ==
    {ExGroup, ExGroupOptional, ExHi, ExMalformed, ExPipe, ExFoo, ExNested,
     ExDeep, ExTwoOptionals, ExOneOne, ExEmptyAlternative}

\* "b a"
ExWords ==
    <<"b", " ", "a">>

\* Strings that are put beside each enumerated string in a two-string input
\* set: a malformed one, one that needs several rounds, a word-only one.
Companions == {ExMalformed, ExDeep, ExWords}

\* The input sets of expand_bnf_recursive.
InputSets ==
    {{}} \cup {{s} : s \in Strs(MaxLen) \cup Examples}
         \cup {{s, c} : s \in Strs(MaxPairLen) \cup Examples, c \in Companions}

\* The input sets of the calls checked for termination.
LiveInputSets == {{s} : s \in Strs(MaxLiveLen)}

\* The input sets that are tried with every language identifier.
LanguageInputSets == {{}, {ExPipe}, {ExMalformed}, {ExGroupOptional}}

\* ------------------------------------------------------------------- state

VARIABLES
    pc,                         \* where the running function is
    bnf,                        \* validate_bnf_groups: its argument
    pos,                        \* validate_bnf_groups: characters scanned
    validation,                 \* validate_bnf_groups: its locals and result
    bnfs,                       \* expand_bnf_recursive: the caller's argument
    language_code,              \* expand_bnf_recursive: the caller's argument
    to_be_expanded,             \* the working set of the current call
    option_expansions,          \* Phase A output
    group_expansions,           \* Phase B output
    group_optional_expansions,  \* Phase C output
    todo,                       \* what the running for loop has yet to visit
    result,                     \* the list returned
    round,                      \* depth of the recursion, saturating
    string,                     \* is_words_only: its argument
    words_only                  \* is_words_only: the value returned

vars ==
    <<pc, bnf, pos, validation, bnfs, language_code, to_be_expanded,
      option_expansions, group_expansions, group_optional_expansions, todo,
      result, round, string, words_only>>

validateVars == <<bnf, pos, validation>>

wordsVars == <<string, words_only>>

expandVars ==
    <<bnfs, language_code, to_be_expanded, option_expansions, group_expansions,
      group_optional_expansions, todo, result, round>>

\* A call of validate_bnf_groups on its own.
InitValidate ==
    /\ pc = "validate"
    /\ bnf \in Strs(MaxLen) \cup Examples
    /\ pos = 0
    /\ validation = ValidateStart
    /\ bnfs = {}
    /\ language_code = "en"
    /\ to_be_expanded = {}
    /\ option_expansions = {}
    /\ group_expansions = {}
    /\ group_optional_expansions = {}
    /\ todo = {}
    /\ result = <<>>
    /\ round = 0
    /\ string = <<>>
    /\ words_only = "none"

\* A call of expand_bnf_recursive.
InitExpand ==
    /\ pc = "entry"
    /\ bnf = <<>>
    /\ pos = 0
    /\ validation = ValidateStart
    /\ \/ bnfs \in InputSets /\ language_code = "en"
       \/ bnfs \in LanguageInputSets /\ language_code \in LanguageCode
    /\ to_be_expanded = bnfs
    /\ option_expansions = {}
    /\ group_expansions = {}
    /\ group_optional_expansions = {}
    /\ todo = {}
    /\ result = <<>>
    /\ round = 0
    /\ string = <<>>
    /\ words_only = "none"

\* A call of is_words_only on its own.
InitWords ==
    /\ pc = "words"
    /\ \/ string \in Strs(MaxLen) \cup Examples /\ language_code = "en"
       \/ string \in Examples /\ language_code \in LanguageCode
    /\ words_only = "none"
    /\ bnf = <<>>
    /\ pos = 0
    /\ validation = ValidateStart
    /\ bnfs = {}
    /\ to_be_expanded = {}
    /\ option_expansions = {}
    /\ group_expansions = {}
    /\ group_optional_expansions = {}
    /\ todo = {}
    /\ result = <<>>
    /\ round = 0

Init == InitValidate \/ InitExpand \/ InitWords

\* ------------------------------------------------- validate_bnf_groups

\* One iteration of the for loop: the next character is scanned. A return
\* inside the loop leaves pos at the character that caused it.
ValidateScan ==
    /\ pc = "validate"
    /\ pos < Len(bnf)
    /\ LET st == ValidateChar(validation, bnf[pos + 1])
       IN  /\ validation' = st
           /\ pos' = IF st.ret = "none" THEN pos + 1 ELSE pos
           /\ pc' = IF st.ret = "none" THEN "validate" ELSE "validated"
    /\ UNCHANGED <<bnf, expandVars, wordsVars>>

\* The loop is over: the stack decides.
ValidateReturn ==
    /\ pc = "validate"
    /\ pos = Len(bnf)
    /\ validation' = ValidateEnd(validation)
    /\ pc' = "validated"
    /\ UNCHANGED <<bnf, pos, expandVars, wordsVars>>

\* ------------------------------------------------ expand_bnf_recursive

\* The character class of the call's language.
Alphabet == LANGUAGE_UNICODE_ALPHABET[lower(language_code)]

\* Mutant of phase_a: the alternatives are taken as split at the pipes, not
\* stripped.
phase_a_untrimmed(expanding, L) ==
    IF ~options_fullmatch(expanding, L) \/ expanding = <<>>
    THEN {expanding}
    ELSE Range(split(expanding, "|"))

\* Phase A, the body of the first for loop for one candidate: what it adds
\* to option_expansions.
phase_a(expanding, L) ==
    IF ~options_fullmatch(expanding, L) \/ expanding = <<>>
    THEN {expanding}
    ELSE Range(split_options(expanding))

\* Mutant of phase_b: a candidate that fails the validator is skipped
\* (the loop goes on) in place of ending the call.
phase_b_skip_invalid(expanding, L) ==
    IF validate_bnf_groups(expanding)
    THEN LET group == groups_search(expanding, L)
         IN  IF group = <<>>
             THEN [abort |-> FALSE, add |-> {expanding}]
             ELSE [abort |-> FALSE,
                   add |-> get_potential_options(expanding, group)]
    ELSE [abort |-> FALSE, add |-> {expanding}]

\* Phase B, the body of the second for loop for one candidate: abort is TRUE
\* when the loop returns list(), add is what it adds to group_expansions.
phase_b(expanding, L) ==
    IF validate_bnf_groups(expanding)
    THEN LET group == groups_search(expanding, L)
         IN  IF group = <<>>
             THEN [abort |-> FALSE, add |-> {expanding}]
             ELSE [abort |-> FALSE,
                   add |-> get_potential_options(expanding, group)]
    ELSE [abort |-> TRUE, add |-> {}]

\* Mutant of phase_c: the variant without the optional is added as it is
\* after the removal, line 136 is left out.
phase_c_without_collapse(expanding, L) ==
    LET optional == optionals_search(expanding, L)
    IN  IF optional = <<>>
        THEN {expanding}
        ELSE LET tmp_new_expansion == replace_first(expanding, optional, <<>>)
             IN  {tmp_new_expansion}
                     \cup get_potential_options(expanding, optional)

\* Phase C, the body of the third for loop for one candidate: what it adds
\* to group_optional_expansions.
phase_c(expanding, L) ==
    LET optional == optionals_search(expanding, L)
    IN  IF optional = <<>>
        THEN {expanding}
        ELSE LET tmp_new_expansion == replace_first(expanding, optional, <<>>)
             IN  {replace_double_space(tmp_new_expansion)}
                     \cup get_potential_options(expanding, optional)

\* Mutant of entry_guard: the identifier is looked up as given, not
\* lower-cased.
entry_guard_case_sensitive(code, expanding_set) ==
    \/ code \notin DOMAIN LANGUAGE_UNICODE_ALPHABET
    \/ expanding_set = {}

\* The two guards at the top of expand_bnf_recursive: TRUE when the call
\* returns list() at once.
entry_guard(code, expanding_set) ==
    \/ lower(code) \notin DOMAIN LANGUAGE_UNICODE_ALPHABET
    \/ expanding_set = {}

\* The two guards at the top of a call, then the locals of the call.
\* Mutant of Enter: the candidates that are already word-only are left out
\* of the round.
Enter_without_word_only ==
    /\ pc = "entry"
    /\ IF entry_guard(language_code, to_be_expanded)
       THEN /\ pc' = "returned"
            /\ result' = <<>>
            /\ UNCHANGED <<option_expansions, group_expansions,
                           group_optional_expansions, todo>>
       ELSE /\ pc' = "phaseA"
            /\ option_expansions' = {}
            /\ group_expansions' = {}
            /\ group_optional_expansions' = {}
            /\ todo' = {e \in to_be_expanded :
                            LET w == is_words_only(e, language_code)
                            IN  w.raised \/ ~w.value}
            /\ UNCHANGED result
    /\ UNCHANGED <<validateVars, wordsVars, bnfs, language_code,
                   to_be_expanded, round>>

Enter ==
    /\ pc = "entry"
    /\ IF entry_guard(language_code, to_be_expanded)
       THEN /\ pc' = "returned"
            /\ result' = <<>>
            /\ UNCHANGED <<option_expansions, group_expansions,
                           group_optional_expansions, todo>>
       ELSE /\ pc' = "phaseA"
            /\ option_expansions' = {}
            /\ group_expansions' = {}
            /\ group_optional_expansions' = {}
            /\ todo' = to_be_expanded
            /\ UNCHANGED result
    /\ UNCHANGED <<validateVars, wordsVars, bnfs, language_code,
                   to_be_expanded, round>>

\* One iteration of the first for loop, on any candidate not yet visited
\* (a set is iterated in no fixed order). The last iteration starts the
\* second loop.
PhaseA ==
    /\ pc = "phaseA"
    /\ \E expanding \in todo :
          LET out == option_expansions \cup phase_a(expanding, Alphabet)
              rest == todo \ {expanding}
          IN  /\ option_expansions' = out
              /\ IF rest = {}
                 THEN pc' = "phaseB" /\ todo' = out
                 ELSE pc' = "phaseA" /\ todo' = rest
    /\ UNCHANGED <<validateVars, wordsVars, bnfs, language_code,
                   to_be_expanded,
                   group_expansions, group_optional_expansions, result, round>>

\* One iteration of the second for loop. A candidate that fails the
\* validator ends the call with the empty list.
PhaseB ==
    /\ pc = "phaseB"
    /\ \E expanding \in todo :
          LET b == phase_b(expanding, Alphabet)
              out == group_expansions \cup b.add
              rest == todo \ {expanding}
          IN  IF b.abort
              THEN /\ pc' = "returned"
                   /\ result' = <<>>
                   /\ UNCHANGED <<group_expansions, todo>>
              ELSE /\ group_expansions' = out
                   /\ IF rest = {}
                      THEN pc' = "phaseC" /\ todo' = out
                      ELSE pc' = "phaseB" /\ todo' = rest
                   /\ UNCHANGED result
    /\ UNCHANGED <<validateVars, wordsVars, bnfs, language_code,
                   to_be_expanded,
                   option_expansions, group_optional_expansions, round>>

\* One iteration of the third for loop. After the last one the two
\* intermediate sets are dropped (set to None, modelled as the empty set)
\* and are_all_words_only starts on the Phase C output.
PhaseC ==
    /\ pc = "phaseC"
    /\ \E expanding \in todo :
          LET out == group_optional_expansions \cup phase_c(expanding, Alphabet)
              rest == todo \ {expanding}
          IN  /\ group_optional_expansions' = out
              /\ IF rest = {}
                 THEN /\ pc' = "check"
                      /\ todo' = out
                      /\ option_expansions' = {}
                      /\ group_expansions' = {}
                 ELSE /\ pc' = "phaseC"
                      /\ todo' = rest
                      /\ UNCHANGED <<option_expansions, group_expansions>>
    /\ UNCHANGED <<validateVars, wordsVars, bnfs, language_code,
                   to_be_expanded, result,
                   round>>

\* One iteration of the loop of are_all_words_only, and what follows its
\* return: is_words_only raising ends the call with the exception; False
\* makes the recursive call on the Phase C output; True on the last sentence
\* returns the sorted list.
AreAllWordsOnly ==
    /\ pc = "check"
    /\ \E sentence \in todo :
          LET w == is_words_only(sentence, lower(language_code))
              rest == todo \ {sentence}
          IN  IF w.raised
              THEN /\ pc' = "raised"
                   /\ UNCHANGED <<to_be_expanded, todo, result, round>>
              ELSE IF ~w.value
              THEN /\ pc' = "entry"
                   /\ to_be_expanded' = group_optional_expansions
                   /\ round' = IF round < MaxRound THEN round + 1 ELSE round
                   /\ todo' = {}
                   /\ UNCHANGED result
              ELSE IF rest = {}
              THEN /\ pc' = "returned"
                   /\ result' = sorted(group_optional_expansions)
                   /\ todo' = {}
                   /\ UNCHANGED <<to_be_expanded, round>>
              ELSE /\ pc' = "check"
                   /\ todo' = rest
                   /\ UNCHANGED <<to_be_expanded, result, round>>
    /\ UNCHANGED <<validateVars, wordsVars, bnfs, language_code,
                   option_expansions,
                   group_expansions, group_optional_expansions>>

\* ---------------------------------------------------------- is_words_only

\* The call of is_words_only(string, language_code): it returns a boolean
\* or ends in AttributeError.
IsWordsOnly ==
    /\ pc = "words"
    /\ LET ret == is_words_only(string, language_code)
       IN  IF ret.raised
           THEN /\ pc' = "words_raised"
                /\ UNCHANGED words_only
           ELSE /\ pc' = "words_returned"
                /\ words_only' = IF ret.value THEN "True" ELSE "False"
    /\ UNCHANGED <<string, validateVars, expandVars>>

\* ---------------------------------------------------------- specifications

NextExpand == Enter \/ PhaseA \/ PhaseB \/ PhaseC \/ AreAllWordsOnly

Next == ValidateScan \/ ValidateReturn \/ IsWordsOnly \/ NextExpand

Spec == Init /\ [][Next]_vars

\* A call of expand_bnf_recursive on one of LiveInputSets.
InitLive == InitExpand /\ bnfs \in LiveInputSets

\* A call of expand_bnf_recursive is sequential code: while it has a next
\* statement, it executes it.
LiveSpec == InitLive /\ [][NextExpand]_vars /\ WF_vars(NextExpand)

\* ------------------------------------------------------------------ claims

Terminal == pc \in {"returned", "raised"}

\* The state is one of a call of expand_bnf_recursive.
Expanding ==
    pc \notin {"validate", "validated", "words", "words_returned", "words_raised"}

Supported == lower(language_code) \in DOMAIN LANGUAGE_UNICODE_ALPHABET

\* The brackets of s, in order.
Brackets(s) == SelectSeq(s, LAMBDA c : c \in {"(", ")", "[", "]"})

\* Whether a string of brackets reduces to the empty string by deleting
\* adjacent pairs "()" and "[]".
RECURSIVE Reduces(_)
Reduces(b) ==
    IF b = <<>> THEN TRUE
    ELSE LET hits == {i \in 1..(Len(b) - 1) :
                         <<b[i], b[i + 1]>> \in {<<"(", ")">>, <<"[", "]">>}}
         IN  IF hits = {} THEN FALSE
             ELSE LET i == Min(hits)
                  IN  Reduces(SubSeq(b, 1, i - 1) \o SubSeq(b, i + 2, Len(b)))

\* The reference predicate: every bracket is closed by one of its kind, with
\* non-crossing nesting.
WellBracketed(s) == Reduces(Brackets(s))

\* C1: validate_bnf_groups returns true exactly for the strings whose
\* brackets are matched and properly nested, and false for every other
\* string.
C1_ValidateIffWellBracketed ==
    pc = "validated" => ((validation.ret = "True") <=> WellBracketed(bnf))

\* C1 witness: a string with both kinds of bracket, nested, was accepted.
C1_Witness ==
    /\ pc = "validated"
    /\ validation.ret = "True"
    /\ bnf = <<"(", "[", "]", ")">>

\* Strictly ascending in Python's str order: sorted, and no string twice.
StrictlyAscending(list) ==
    \A i \in 1..Len(list) : \A j \in 1..Len(list) :
        i < j => StrLess(list[i], list[j])

\* C3: a returned list holds no string twice and is in ascending
\* lexicographic order.
C3_SortedNoDuplicates == pc = "returned" => StrictlyAscending(result)

\* C3 witness: "b|a" was expanded, to a list of two strings.
C3_Witness ==
    /\ pc = "returned"
    /\ bnfs = {<<"b", "|", "a">>}
    /\ Len(result) = 2

\* C4: every call of expand_bnf_recursive ends by returning a list; none
\* ends in an uncaught error.
C4_AlwaysReturnsList == pc # "raised"

\* C5: a candidate that fails the validator in Phase B ends the call with
\* the empty list: Phase C is reached only when every Phase B candidate is
\* valid, whatever the order of the visits, a call that returns with an
\* invalid candidate in the Phase A output returns the empty list, and an
\* input set that holds "(a|b]" never gets past Phase B.
C5_InvalidCandidateAborts ==
    /\ pc = "phaseC" => \A c \in option_expansions : validate_bnf_groups(c)
    /\ (pc = "returned" /\ \E c \in option_expansions : ~validate_bnf_groups(c))
           => result = <<>>
    /\ (Supported /\ ExMalformed \in bnfs)
           => /\ pc \in {"entry", "phaseA", "phaseB", "returned"}
              /\ pc = "returned" => result = <<>>

\* C5 witness: the call returned the empty list on a malformed candidate
\* after Phase B had already expanded a well-formed one.
C5_Witness ==
    /\ pc = "returned"
    /\ result = <<>>
    /\ group_expansions # {}
    /\ \E c \in option_expansions : ~validate_bnf_groups(c)

\* The identifiers that equal a supported one up to letter case.
KnownIgnoringCase == {"en", "EN"}

\* C6: with an unknown language identifier or an empty input set the call
\* returns the empty list at once: no phase runs, nothing is computed; an
\* identifier that differs from a supported one only in case is accepted
\* (the call gets past its entry).
C6_EntryGuards ==
    /\ (Expanding /\ (language_code \notin KnownIgnoringCase \/ bnfs = {}))
           => /\ pc \in {"entry", "returned"}
              /\ pc = "returned" => result = <<>>
              /\ option_expansions = {}
              /\ group_expansions = {}
              /\ group_optional_expansions = {}
              /\ todo = {}
              /\ round = 0
    /\ (language_code \in KnownIgnoringCase /\ bnfs # {} /\ pc = "returned")
           => option_expansions # {} \/ group_optional_expansions # {}

\* C6 witness: an upper-case identifier was accepted and the call returned
\* a result.
C6_Witness ==
    /\ pc = "returned"
    /\ language_code = "EN"
    /\ result # <<>>

\* C7: every call of expand_bnf_recursive on a non-empty set, for a language
\* whose class holds the space, ends.
C7_Terminates == <>Terminal

\* A final sentence: alphabet word characters and separators only, no
\* grammar punctuation.
FinalSentence(s) ==
    \A k \in 1..Len(s) : s[k] \in Letters \cup {" "} /\ s[k] \notin Punctuation

\* C8: every string of a returned list is a final sentence.
C8_OnlyFinalSentences ==
    pc = "returned" => \A i \in 1..Len(result) : FinalSentence(result[i])

\* C8 witness: a nested notation was expanded to a non-empty list.
C8_Witness ==
    /\ pc = "returned"
    /\ bnfs = {ExNested}
    /\ result # <<>>

\* Word-only: a non-empty string of alphabet word characters and separators.
WordOnly(s) == s # <<>> /\ \A k \in 1..Len(s) : s[k] \in Letters \cup {" "}

\* Word-only, and neither starting nor ending with a space.
WordOnlyTrimmed(s) == WordOnly(s) /\ s[1] # " " /\ s[Len(s)] # " "

\* C9 as stated: a set of word-only strings is returned unchanged in content.
C9_Idempotent ==
    (Supported /\ bnfs # {} /\ pc = "returned" /\ \A s \in bnfs : WordOnly(s))
        => Range(result) = bnfs

\* C9 as amended: a set of word-only strings none of which starts or ends
\* with a space is returned, in the first round, as the sorted list of
\* exactly its strings.
C9_IdempotentOnTrimmed ==
    (Supported /\ bnfs # {} /\ \A s \in bnfs : WordOnlyTrimmed(s))
        => /\ pc # "raised"
           /\ round = 0
           /\ pc = "returned"
                  => /\ Range(result) = bnfs
                     /\ Len(result) = Cardinality(bnfs)
                     /\ StrictlyAscending(result)

\* C9 witness: a set of two trimmed word-only strings was returned sorted.
C9_Witness ==
    /\ pc = "returned"
    /\ bnfs = {ExWords, <<"a", " ", "b">>}
    /\ result = <<<<"a", " ", "b">>, ExWords>>

\* Bracket depth of s before position i: openers minus closers in s[1..i-1].
Depth(s, i) ==
    Cardinality({k \in 1..(i - 1) : s[k] \in {"(", "["}})
        - Cardinality({k \in 1..(i - 1) : s[k] \in {")", "]"}})

\* The pieces of s between its pipes that lie outside every bracket.
RECURSIVE SplitTop(_)
SplitTop(s) ==
    LET tops == {i \in 1..Len(s) : s[i] = "|" /\ Depth(s, i) = 0}
    IN  IF tops = {} THEN <<s>>
        ELSE LET i == Min(tops)
             IN  <<SubSeq(s, 1, i - 1)>> \o SplitTop(SubSeq(s, i + 1, Len(s)))

\* Every run of spaces reduced to one space, and the ends stripped.
RECURSIVE Squeeze(_)
Squeeze(s) ==
    IF Len(s) < 2 THEN s
    ELSE IF s[1] = " " /\ s[2] = " " THEN Squeeze(Tail(s))
    ELSE <<s[1]>> \o Squeeze(Tail(s))

Normalize(s) == strip(Squeeze(s))

\* What a well-bracketed notation denotes. An alternation denotes what any
\* of its top-level alternatives denotes, trimmed; a sequence denotes its
\* text with the first bracketed span replaced by what the span denotes (a
\* group: one of its alternatives; an optional: nothing, or one of its
\* alternatives) followed by what the rest denotes.
RECURSIVE DenoteAlternation(_), DenoteSequence(_)
DenoteAlternation(s) ==
    UNION {{strip(x) : x \in DenoteSequence(p)} : p \in Range(SplitTop(s))}

DenoteSequence(p) ==
    LET opens == {i \in 1..Len(p) : p[i] \in {"(", "["}}
    IN  IF opens = {} THEN {p}
        ELSE LET i == Min(opens)
                 j == Min({k \in (i + 1)..Len(p) : Depth(p, k + 1) = Depth(p, i)})
                 inner == DenoteAlternation(SubSeq(p, i + 1, j - 1))
                              \cup (IF p[i] = "[" THEN {<<>>} ELSE {})
             IN  {SubSeq(p, 1, i - 1) \o m \o r :
                     m \in inner, r \in DenoteSequence(SubSeq(p, j + 1, Len(p)))}

\* The sentences a notation denotes: words separated by single spaces.
Denote(s) == {Normalize(x) : x \in DenoteAlternation(s)}

\* A notation string: letters, spaces and grammar punctuation only.
Notation(s) == \A k \in 1..Len(s) : s[k] \in Letters \cup {" "} \cup Punctuation

\* C2: for a well-bracketed notation string and a supported language the
\* returned list holds exactly the sentences the notation denotes.
C2_ExactDenotation ==
    \A s \in bnfs :
        (pc = "returned" /\ Supported /\ bnfs = {s} /\ Notation(s)
             /\ WellBracketed(s))
            => Range(result) = Denote(s)

\* The words of list joined by sep.
RECURSIVE Join(_, _)
Join(list, sep) ==
    IF Len(list) = 0 THEN <<>>
    ELSE IF Len(list) = 1 THEN list[1]
    ELSE list[1] \o <<sep>> \o Join(Tail(list), sep)

\* "(g1|...|gm) [o1|...|on]"
GroupThenOptional(group, optional) ==
    <<"(">> \o Join(group, "|") \o <<")", " ", "[">> \o Join(optional, "|")
        \o <<"]">>

\* The notations of this shape among the inputs: "(a) [b]", "(a|b) [c|d]",
\* "(hi|hello) [there]".
GroupOptionalCases ==
    {[group |-> <<<<"a">>>>, optional |-> <<<<"b">>>>],
     [group |-> <<<<"a">>, <<"b">>>>, optional |-> <<<<"c">>, <<"d">>>>],
     [group |-> <<<<"h", "i">>, <<"h", "e", "l", "l", "o">>>>,
      optional |-> <<<<"t", "h", "e", "r", "e">>>>]}

\* C10: one group of m alternatives, a space, one optional of n
\* alternatives: the result is the m group alternatives alone and the m * n
\* combinations "g o", m * (n + 1) sentences in all.
C10_GroupTimesOptional ==
    \A c \in GroupOptionalCases :
        (pc = "returned" /\ Supported
             /\ bnfs = {GroupThenOptional(c.group, c.optional)})
            => /\ Range(result) =
                      Range(c.group)
                          \cup {g \o <<" ">> \o o :
                                   g \in Range(c.group), o \in Range(c.optional)}
               /\ Len(result) = Len(c.group) * (Len(c.optional) + 1)

\* The candidate the running for loop visits in this step: the one that
\* leaves todo, or the last one left.
Visited(e) == IF todo = {e} THEN TRUE ELSE todo' = todo \ {e}

\* The leftmost span open ... close of e that holds only alphabet word
\* characters and pipes between its delimiters, as <<first, last>>;
\* <<0, 0>> when e has none.
FirstSpan(e, open, close) ==
    LET starts == {i \in 1..Len(e) :
                      /\ e[i] = open
                      /\ \E j \in (i + 1)..Len(e) :
                            /\ e[j] = close
                            /\ \A k \in (i + 1)..(j - 1) :
                                  e[k] \in Letters \cup {" ", "|"}}
    IN  IF starts = {} THEN <<0, 0>>
        ELSE LET i == Min(starts)
             IN  <<i, Min({j \in (i + 1)..Len(e) : e[j] = close})>>

\* The span i..j of e stands between two words, one space on each side.
BetweenWords(e, i, j) ==
    /\ i >= 3
    /\ j + 2 <= Len(e)
    /\ e[i - 1] = " " /\ e[i - 2] \in Letters
    /\ e[j + 1] = " " /\ e[j + 2] \in Letters

\* C11: when Phase C resolves an optional that stands between two words,
\* one space on each side, its output holds the variant with one space
\* between the two words, and the step does not produce the variant with
\* two spaces between them.
C11_WhitespaceCollapse ==
    [][\A e \in todo :
          LET sp == FirstSpan(e, "[", "]")
              i == sp[1]
              j == sp[2]
              single == SubSeq(e, 1, i - 1) \o SubSeq(e, j + 2, Len(e))
              double == SubSeq(e, 1, i - 1) \o SubSeq(e, j + 1, Len(e))
          IN  (pc = "phaseC" /\ Visited(e) /\ i > 0 /\ BetweenWords(e, i, j))
                  => /\ single \in group_optional_expansions'
                     /\ double \in group_optional_expansions'
                            => double \in group_optional_expansions]_vars

\* C12: for a supported language, is_words_only ends by returning a boolean,
\* True exactly when the whole string is one run of word characters of the
\* alphabet, False for every other string.
C12_WordsOnlyIsBoolean ==
    (pc \in {"words_returned", "words_raised"} /\ Supported)
        => /\ pc = "words_returned"
           /\ words_only = (IF WordOnly(string) THEN "True" ELSE "False")

\* s without its leading and trailing spaces.
Trim(s) ==
    LET inked == {k \in 1..Len(s) : s[k] # " "}
    IN  IF inked = {} THEN <<>>
        ELSE SubSeq(s, Min(inked), CHOOSE k \in inked : \A l \in inked : l <= k)

\* The trimmed alternatives of a bracket-free body: the stretches between
\* two neighbouring pipes (or an end of the body), trimmed.
Alternatives(body) ==
    LET cuts == {0, Len(body) + 1} \cup {k \in 1..Len(body) : body[k] = "|"}
    IN  {Trim(SubSeq(body, p + 1, q - 1)) :
            <<p, q>> \in {c \in cuts \X cuts :
                             /\ c[1] < c[2]
                             /\ \A k \in cuts : ~(c[1] < k /\ k < c[2])}}

\* e is, in its entirety, a non-empty bracket-free alternation.
BareAlternation(e) ==
    e # <<>> /\ \A k \in 1..Len(e) : e[k] \in Letters \cup {" ", "|"}

\* C13: an iteration of the Phase A loop adds to option_expansions the
\* trimmed alternatives of the candidate it visits when the whole candidate
\* is a non-empty bracket-free alternation, and the candidate itself,
\* unchanged, in every other case.
C13_PhaseA ==
    [][\A e \in todo :
          (pc = "phaseA" /\ Visited(e))
              => option_expansions' =
                     option_expansions \cup
                         (IF BareAlternation(e) THEN Alternatives(e) ELSE {e})]_vars

\* Phase A has replaced "a|b" by its alternatives, and passed a candidate
\* with a bracket on beside them.
C13_Witness ==
    /\ pc = "phaseB"
    /\ round = 0
    /\ bnfs = {ExPipe, ExMalformed}
    /\ option_expansions = {<<"a">>, <<"b">>, ExMalformed}

\* The leftmost span open ... close of e with no bracket between its
\* delimiters, as <<first, last>>; <<0, 0>> when e has none.
FirstBracketFreeSpan(e, open, close) ==
    LET starts == {i \in 1..Len(e) :
                      /\ e[i] = open
                      /\ \E j \in (i + 1)..Len(e) :
                            /\ e[j] = close
                            /\ \A k \in (i + 1)..(j - 1) :
                                  e[k] \notin {"(", ")", "[", "]"}}
    IN  IF starts = {} THEN <<0, 0>>
        ELSE LET i == Min(starts)
             IN  <<i, Min({j \in (i + 1)..Len(e) : e[j] = close})>>

\* e with its span sp replaced, where it stands, by each trimmed
\* alternative of the span; every character outside the span is kept.
Resolved(e, sp) ==
    {SubSeq(e, 1, sp[1] - 1) \o a \o SubSeq(e, sp[2] + 1, Len(e)) :
        a \in Alternatives(SubSeq(e, sp[1] + 1, sp[2] - 1))}

Collapsed(s) ==
    LET runStart(k) ==
            CHOOSE i \in 1..k :
                /\ \A l \in i..k : s[l] = " "
                /\ i = 1 \/ s[i - 1] # " "
        kept == {k \in 1..Len(s) : s[k] = " " => (k - runStart(k)) % 2 = 0}
        nth(n) == CHOOSE k \in kept : Cardinality({l \in kept : l <= k}) = n
    IN  [n \in 1..Cardinality(kept) |-> s[nth(n)]]

PassesThrough(e) ==
    /\ BareAlternation(e) => Alternatives(e) = {e}
    /\ WellBracketed(e)
    /\ FirstSpan(e, "(", ")") = <<0, 0>>
    /\ FirstSpan(e, "[", "]") = <<0, 0>>

\* C16: when the phases of a round have passed every candidate of the
\* working set through unchanged, every candidate of the round's output is
\* word-only and the call returns without a further round; and a further
\* round never starts on the working set the round before it started on.
C16_NoRoundWithoutProgress ==
    [][pc = "check" =>
          /\ (\A e \in to_be_expanded : PassesThrough(e))
                 => /\ \A s \in group_optional_expansions : WordOnly(s)
                    /\ pc' \in {"check", "returned"}
          /\ pc' = "entry" => to_be_expanded' # to_be_expanded]_vars

\* What is left of a string of brackets when adjacent pairs "()" and "[]"
\* are deleted until there is none.
RECURSIVE Residue(_)
Residue(b) ==
    LET hits == {i \in 1..(Len(b) - 1) :
                    <<b[i], b[i + 1]>> \in {<<"(", ")">>, <<"[", "]">>}}
    IN  IF hits = {} THEN b
        ELSE LET i == Min(hits)
             IN  Residue(SubSeq(b, 1, i - 1) \o SubSeq(b, i + 2, Len(b)))

\* The 0-based indices of the closers of s that close nothing: the prefix
\* that ends with one has a closer left in its residue.
BadClosers(s) ==
    {p \in 0..(Len(s) - 1) :
        /\ s[p + 1] \in {")", "]"}
        /\ \E k \in DOMAIN Residue(Brackets(SubSeq(s, 1, p + 1))) :
              Residue(Brackets(SubSeq(s, 1, p + 1)))[k] \in {")", "]"}}

\* The openers of s that nothing closes, each with its 0-based index.
UnclosedOpeners(s) ==
    {<<s[i], i - 1>> : i \in {i \in 1..Len(s) :
        /\ s[i] \in {"(", "["}
        /\ \A j \in (i + 1)..Len(s) : ~WellBracketed(SubSeq(s, i, j))}}

\* C17: while validate_bnf_groups scans, character_index is the 0-based
\* index of the character scanned next; a return inside the loop happens at
\* the first closer that closes nothing, with character_index its index and
\* nothing scanned after it; and a scan that reaches the end with a
\* non-empty stack holds on the stack exactly the unclosed openers, each
\* with its own index.
C17_IndexIsPosition ==
    /\ pc = "validate" => validation.character_index = pos
    /\ (pc = "validated" /\ pos < Len(bnf))
           => /\ validation.ret = "False"
              /\ validation.character_index = pos
              /\ BadClosers(bnf) # {}
              /\ pos = Min(BadClosers(bnf))
    /\ (pc = "validated" /\ pos = Len(bnf))
           => /\ BadClosers(bnf) = {}
              /\ Range(validation.group_stack) = UnclosedOpeners(bnf)
              /\ Len(validation.group_stack) = Cardinality(UnclosedOpeners(bnf))
              /\ validation.ret = "False" <=> UnclosedOpeners(bnf) # {}

\* The scan of "(a|b]" has stopped at its closer, index 4, with the opener
\* of index 0 on the stack.
C17_Witness ==
    /\ pc = "validated"
    /\ bnf = ExMalformed
    /\ validation.ret = "False"
    /\ validation.character_index = 4
    /\ validation.group_stack = <<<<"(", 0>>>>

\* What "(a) [b]" and "((b))" expand to, each alone and both together.
AloneOneOne == <<<<"a", " ">>, <<"a", " ", "b">>>>

AloneDeep == <<<<"b">>>>

JointOneOneDeep == <<<<"a">>, <<"a", " ", "b">>, <<"b">>>>

\* C18: the inputs of a call share one working set. A further round starts
\* on the whole output of the round before it and visits every candidate of
\* it, the word-only ones too; and the list returned for two inputs together
\* is not always the sorted union of the lists returned for each alone:
\* "(a) [b]" gives "a " alone and "a" beside "((b))", which needs a second
\* round.
C18_JointExpansion ==
    [][/\ (pc = "check" /\ pc' = "entry")
              => to_be_expanded' = group_optional_expansions
       /\ (pc = "entry" /\ pc' = "phaseA") => todo' = to_be_expanded
       /\ (Supported /\ pc' = "returned")
              => /\ bnfs = {ExOneOne} => result' = AloneOneOne
                 /\ bnfs = {ExDeep} => result' = AloneDeep
                 /\ bnfs = {ExOneOne, ExDeep}
                        => /\ result' = JointOneOneDeep
                           /\ Range(result') #
                                  Range(AloneOneOne) \cup Range(AloneDeep)]_vars

\* The two inputs were expanded together, in two rounds.
C18_Witness ==
    /\ pc = "returned"
    /\ round = 1
    /\ bnfs = {ExOneOne, ExDeep}
    /\ result = JointOneOneDeep

\* C19: when every input string is well-bracketed, so is every candidate of
\* every working set and of every phase output of every round; and a call
\* ends on a candidate that fails the validator (Phase B returns the empty
\* list, its input still at hand) in the first round only.
C19_WellNestedPreserved ==
    /\ (Expanding /\ \A s \in bnfs : WellBracketed(s))
           => \A c \in to_be_expanded \cup option_expansions \cup group_expansions
                           \cup group_optional_expansions \cup todo :
                  WellBracketed(c)
    /\ (pc = "returned" /\ option_expansions # {}) => round = 0

\* The second round of a call on a well-bracketed input is in Phase B, with
\* candidates that still hold brackets.
C19_Witness ==
    /\ pc = "phaseB"
    /\ round = 1
    /\ bnfs = {ExNested}
    /\ WellBracketed(ExNested)
    /\ \E c \in todo : Brackets(c) # <<>> /\ WellBracketed(c)

====
